---- MODULE Spec2Model ----
(***************************************************************************)
(* Model of nipype.interfaces.fsl.possum: the B0Calc interface, its input  *)
(* specification (B0CalcInputSpec), its output specification               *)
(* (B0CalcOutputSpec) and the doctest that fixes its command line.         *)
(*                                                                         *)
(* Floats are modelled exactly as dyadic rationals: a float value is an    *)
(* integer number of eighths (12 is 1.5, 24 is 3.0, -3 is -0.375), so that *)
(* printf-style formatting (%0.4f, %0.2f, %e) is computed digit by digit,  *)
(* with the round-half-to-even that C applies to exactly representable     *)
(* values.  A path is a record [base, ext]; its text is base \o ext.       *)
(***************************************************************************)
EXTENDS Integers, Sequences, FiniteSets, TLC

VARIABLES inputs, output_type, pc, args, cmdline, calls, outputs, error

vars == <<inputs, output_type, pc, args, cmdline, calls, outputs, error>>

\* ------------------------------------------------------------------ bounds

\* At most this many of the optional traits are set in one configuration.
MaxSet == 2

\* ------------------------------------------------------- trait declarations

\* The optional traits sorted by name instead of by declaration.
OptionalFieldsByName ==
    << "chi_air", "compute_xyz", "delta", "directconv", "extendboundary",
       "x_b0", "x_grad", "y_b0", "y_grad", "z_b0", "z_grad" >>

\* The optional traits, in the order B0CalcInputSpec declares them.
OptionalFields ==
    << "x_grad", "y_grad", "z_grad", "x_b0", "y_b0", "z_b0",
       "delta", "chi_air", "compute_xyz", "extendboundary", "directconv" >>

OptionalSet == { OptionalFields[i] : i \in 1..Len(OptionalFields) }

BoolFields == { "compute_xyz", "directconv" }

FloatFields == OptionalSet \ BoolFields

FileFields == { "in_file", "out_file" }

Fields == FileFields \cup OptionalSet

\* argstr metadata of each trait: the literal text before the value, the
\* conversion applied to the value and, for %0.Nf, the precision N.
trait_argstr(name) ==
    CASE name = "in_file"        -> [flag |-> "-i ", conv |-> "s", prec |-> 0]
      [] name = "out_file"       -> [flag |-> "-o ", conv |-> "s", prec |-> 0]
      [] name = "x_grad"         -> [flag |-> "--gx=", conv |-> "f", prec |-> 4]
      [] name = "y_grad"         -> [flag |-> "--gy=", conv |-> "f", prec |-> 4]
      [] name = "z_grad"         -> [flag |-> "--gz=", conv |-> "f", prec |-> 4]
      [] name = "x_b0"           -> [flag |-> "--b0x=", conv |-> "f", prec |-> 2]
      [] name = "y_b0"           -> [flag |-> "--b0y=", conv |-> "f", prec |-> 2]
      [] name = "z_b0"           -> [flag |-> "--b0=", conv |-> "f", prec |-> 2]
      [] name = "delta"          -> [flag |-> "-d ", conv |-> "e", prec |-> 6]
      [] name = "chi_air"        -> [flag |-> "--chi0=", conv |-> "e", prec |-> 6]
      [] name = "compute_xyz"    -> [flag |-> "--xyz", conv |-> "", prec |-> 0]
      [] name = "extendboundary" -> [flag |-> "--extendboundary=", conv |-> "f", prec |-> 2]
      [] name = "directconv"     -> [flag |-> "--directconv", conv |-> "", prec |-> 0]

\* x_grad written with two decimal places instead of four.
argstr_gx_precision(name) ==
    IF name = "x_grad"
    THEN [flag |-> "--gx=", conv |-> "f", prec |-> 2]
    ELSE trait_argstr(name)

\* out_file passed with a long option instead of -o.
argstr_out_flag(name) ==
    IF name = "out_file"
    THEN [flag |-> "--out=", conv |-> "s", prec |-> 0]
    ELSE trait_argstr(name)

\* directconv written with the argstr of compute_xyz.
argstr_directconv_copy(name) ==
    IF name = "directconv" THEN trait_argstr("compute_xyz") ELSE trait_argstr(name)

\* The argstr of a trait.
argstr(name) == trait_argstr(name)

\* position metadata: in_file has position=0, out_file position=1, the other
\* traits none (-1 here).
position(name) ==
    CASE name = "in_file"  -> 0
      [] name = "out_file" -> 1
      [] OTHER             -> -1

\* No trait mandatory.
mandatory_none(name) == FALSE

\* mandatory metadata: only in_file is mandatory.
mandatory(name) == name = "in_file"

\* No trait checked for existence.
exists_none(name) == FALSE

\* exists metadata of the input specification: only in_file has exists=True.
exists(name) == name = "in_file"

\* name_source / name_template / output_name metadata of out_file.
name_source(name) == IF name = "out_file" THEN "in_file" ELSE ""

\* The template without its full suffix.
name_template_short(name) == IF name = "out_file" THEN "_b0" ELSE ""

name_template(name) == IF name = "out_file" THEN "_b0field" ELSE ""

\* output_name placed on in_file instead of out_file.
output_name_on_in_file(name) == IF name = "in_file" THEN "out_file" ELSE ""

output_name(name) == IF name = "out_file" THEN "out_file" ELSE ""

\* Another POSSUM program.
cmd_possum == "possum"

\* B0Calc._cmd
_cmd == "b0calc"

\* ------------------------------------------------- printf-style conversions

Abs(n) == IF n < 0 THEN -n ELSE n

RECURSIVE Pow10(_)
Pow10(n) == IF n = 0 THEN 1 ELSE 10 * Pow10(n - 1)

DigitChar(d) ==
    CASE d = 0 -> "0" [] d = 1 -> "1" [] d = 2 -> "2" [] d = 3 -> "3"
      [] d = 4 -> "4" [] d = 5 -> "5" [] d = 6 -> "6" [] d = 7 -> "7"
      [] d = 8 -> "8" [] d = 9 -> "9"

\* The decimal digits of a natural number, most significant first.
RECURSIVE Digits(_)
Digits(n) == IF n < 10 THEN << n >> ELSE Append(Digits(n \div 10), n % 10)

RECURSIVE DigitsStr(_)
DigitsStr(ds) ==
    IF ds = << >> THEN "" ELSE DigitChar(Head(ds)) \o DigitsStr(Tail(ds))

\* A natural number written with at least width digits, zero-padded.
RECURSIVE ZeroPad(_, _)
ZeroPad(ds, width) ==
    IF Len(ds) >= width THEN ds ELSE ZeroPad(<< 0 >> \o ds, width)

\* '%0.<prec>f' % v for the float v = eighths / 8: the nearest multiple of
\* 10^-prec, ties to even, as sign, integer part, point, prec digits.
FormatF(eighths, prec) ==
    LET scaled == Abs(eighths) * Pow10(prec)
        q      == scaled \div 8
        r      == scaled % 8
        n      == IF r > 4 \/ (r = 4 /\ q % 2 = 1) THEN q + 1 ELSE q
        sign   == IF eighths < 0 THEN "-" ELSE ""
    IN  sign \o DigitsStr(Digits(n \div Pow10(prec))) \o "."
             \o DigitsStr(ZeroPad(Digits(n % Pow10(prec)), prec))

\* '%e' % v for the float v = eighths / 8: one digit, point, six digits,
\* 'e', the sign of the exponent and at least two exponent digits.  The
\* value is m / 1000 with m = 125 * |eighths|, which has at most seven
\* significant digits for the values used here, so no rounding occurs.
FormatE(eighths) ==
    LET m    == Abs(eighths) * 125
        ds   == Digits(m)
        ex   == Len(ds) - 4
        mant == ds \o [i \in 1..(7 - Len(ds)) |-> 0]
        sign == IF eighths < 0 THEN "-" ELSE ""
    IN  IF eighths = 0
        THEN "0.000000e+00"
        ELSE sign \o DigitChar(mant[1]) \o "." \o DigitsStr(Tail(mant)) \o "e"
                  \o (IF ex < 0 THEN "-" ELSE "+")
                  \o DigitsStr(ZeroPad(Digits(Abs(ex)), 2))

\* The text of a path.
PathStr(p) == p.base \o p.ext

\* ------------------------------------------------------------ value domains

\* Float values a caller may assign, in eighths, by the conversion of the
\* trait: -0.375, 0.0 and 1.5 for %0.4f and %e; -0.375, 0.125 and 3.0 for
\* %0.2f (the first two are ties of the rounding to two places).
FloatValues(name) ==
    IF argstr(name).conv = "f" /\ argstr(name).prec = 2
    THEN { -3, 1, 24 }
    ELSE { -3, 0, 12 }

\* The files present in the working directory.
FileSystem ==
    { [base |-> "tissue+air_map", ext |-> ".nii"],
      [base |-> "seg", ext |-> ".nii.gz"] }

\* Paths a caller may assign to in_file: the present ones and an absent one.
InPaths == FileSystem \cup { [base |-> "/no/such/file", ext |-> ".nii"] }

\* Paths a caller may assign to out_file.
OutPaths == { [base |-> "field", ext |-> ""], [base |-> "out", ext |-> ".nii"] }

ValuesOf(name) ==
    CASE name = "in_file"     -> InPaths
      [] name = "out_file"    -> OutPaths
      [] name \in BoolFields  -> BOOLEAN
      [] OTHER                -> FloatValues(name)

\* The FSL output types and the extension each gives to a generated name.
OutputTypes == { "NIFTI_GZ", "NIFTI" }

output_type_to_ext(t) == IF t = "NIFTI_GZ" THEN ".nii.gz" ELSE ".nii"

\* --------------------------------------------------- the interface framework

\* The value of a trait nothing defines.
Undefined == [base |-> "<undefined>", ext |-> ""]

\* A trait is defined once the caller has assigned it; a declared default
\* does not define it.
isdefined(name) == name \in DOMAIN inputs

\* The value of out_file: the caller's value when defined, else the name
\* generated from the name_source trait, name_template and the output type.
filename_from_source(name) ==
    IF isdefined(name)
    THEN inputs[name]
    ELSE IF name_source(name) # "" /\ isdefined(name_source(name))
    THEN [base |-> inputs[name_source(name)].base \o name_template(name),
          ext  |-> output_type_to_ext(output_type)]
    ELSE Undefined

\* Whether a trait contributes a value to the command line.
HasValue(name) ==
    \/ isdefined(name)
    \/ name_source(name) # "" /\ isdefined(name_source(name))

ValueOf(name) ==
    IF name_source(name) # "" THEN filename_from_source(name) ELSE inputs[name]

\* One trait's argument: its argstr applied to its value; a Bool trait gives
\* its bare argstr when true and nothing when false.  An argument is kept
\* with the name of the trait that produced it.
format_arg(name, value) ==
    LET a == argstr(name)
        arg(text) == << [trait |-> name, text |-> text] >>
    IN  CASE a.conv = "s" -> arg(a.flag \o PathStr(value))
          [] a.conv = "f" -> arg(a.flag \o FormatF(value, a.prec))
          [] a.conv = "e" -> arg(a.flag \o FormatE(value))
          [] OTHER        -> IF value THEN arg(a.flag) ELSE << >>

ArgOf(name) == IF HasValue(name) THEN format_arg(name, ValueOf(name)) ELSE << >>

\* The arguments of the traits that carry a position, by ascending position.
RECURSIVE PositionalArgs(_)
PositionalArgs(p) ==
    IF p >= Cardinality(Fields)
    THEN << >>
    ELSE LET at == { f \in Fields : position(f) = p }
         IN  (IF at = {} THEN << >> ELSE ArgOf(CHOOSE f \in at : TRUE))
             \o PositionalArgs(p + 1)

\* The arguments of the traits without a position, in declaration order.
RECURSIVE UnpositionedArgs(_)
UnpositionedArgs(i) ==
    IF i > Len(OptionalFields)
    THEN << >>
    ELSE (IF position(OptionalFields[i]) < 0
          THEN ArgOf(OptionalFields[i]) ELSE << >>)
         \o UnpositionedArgs(i + 1)

parse_inputs == PositionalArgs(0) \o UnpositionedArgs(1)

RECURSIVE Join(_)
Join(toks) ==
    IF toks = << >> THEN "" ELSE " " \o Head(toks).text \o Join(Tail(toks))

\* B0Calc.cmdline: the program name and the arguments, space-separated.
Cmdline == _cmd \o Join(parse_inputs)

\* The fields of B0CalcOutputSpec.
OutputFields == { "out_file" }

\* The outputs reported after a successful run: each output field takes the
\* resolved name of the input trait whose output_name it is.
list_outputs ==
    [ o \in OutputFields |->
        filename_from_source(CHOOSE n \in Fields : output_name(n) = o) ]

\* -------------------------------------------------------------- the actions

Init ==
    /\ inputs = << >>
    /\ output_type \in OutputTypes
    /\ pc = "idle"
    /\ args = << >>
    /\ cmdline = ""
    /\ calls = 0
    /\ outputs = << >>
    /\ error = "none"

\* b0calc.inputs.<name> = value
SetInput(name, value) ==
    /\ pc = "idle"
    /\ LET new == [ f \in (DOMAIN inputs) \cup {name} |->
                      IF f = name THEN value ELSE inputs[f] ]
       IN  /\ Cardinality((DOMAIN new) \cap OptionalSet) <= MaxSet
           /\ inputs' = new
    /\ UNCHANGED <<output_type, pc, args, cmdline, calls, outputs, error>>

\* run(), refused: a mandatory trait is undefined.
RunMissing ==
    /\ pc = "idle"
    /\ \E f \in Fields : mandatory(f) /\ ~isdefined(f)
    /\ pc' = "failed"
    /\ error' = "MissingRequiredParameter"
    /\ UNCHANGED <<inputs, output_type, args, cmdline, calls, outputs>>

\* run(), refused: a trait with exists=True names no file.
RunNotFound ==
    /\ pc = "idle"
    /\ \A f \in Fields : mandatory(f) => isdefined(f)
    /\ \E f \in Fields : exists(f) /\ isdefined(f) /\ inputs[f] \notin FileSystem
    /\ pc' = "failed"
    /\ error' = "PathNotFound"
    /\ UNCHANGED <<inputs, output_type, args, cmdline, calls, outputs>>

\* run(), accepted: the command line is built and the tool is started.
RunStart ==
    /\ pc = "idle"
    /\ \A f \in Fields : mandatory(f) => isdefined(f)
    /\ \A f \in Fields : exists(f) /\ isdefined(f) => inputs[f] \in FileSystem
    /\ args' = parse_inputs
    /\ cmdline' = Cmdline
    /\ calls' = calls + 1
    /\ pc' = "running"
    /\ UNCHANGED <<inputs, output_type, outputs, error>>

\* The tool exits with status zero: the outputs are reported.
ToolSuccess ==
    /\ pc = "running"
    /\ outputs' = Append(outputs, list_outputs)
    /\ pc' = "done"
    /\ UNCHANGED <<inputs, output_type, args, cmdline, calls, error>>

\* The tool exits with a non-zero status and is started again.
ToolFailureRetried ==
    /\ pc = "running"
    /\ calls' = calls + 1
    /\ UNCHANGED <<inputs, output_type, pc, args, cmdline, outputs, error>>

\* The tool exits with a non-zero status: the failure reaches the caller.
ToolFailure ==
    /\ pc = "running"
    /\ error' = "ExternalToolFailure"
    /\ pc' = "failed"
    /\ UNCHANGED <<inputs, output_type, args, cmdline, calls, outputs>>

Next ==
    \/ \E name \in Fields : \E value \in ValuesOf(name) : SetInput(name, value)
    \/ RunMissing
    \/ RunNotFound
    \/ RunStart
    \/ ToolSuccess
    \/ ToolFailure

Spec == Init /\ [][Next]_vars

\* ------------------------------------------------------------------- claims

\* The command line has been built and the tool started.
Started == calls > 0

\* The argument positions a trait occupies in the built command line.
ArgsOf(name) == { i \in 1..Len(args) : args[i].trait = name }

\* The input used by the doctest of B0Calc.
DoctestInput == [base |-> "tissue+air_map", ext |-> ".nii"]

\* C1 (as stated): with out_file unset, the resolved output path is the stem
\* of the input, then '_b0field', then the input's own extension.
C1_InputExtension ==
    (Started /\ "out_file" \notin DOMAIN inputs) =>
        args[2].text =
            "-o " \o inputs["in_file"].base \o "_b0field" \o inputs["in_file"].ext

\* C1 (amended): with out_file unset, the resolved output path, after -o and
\* in the reported outputs, is the stem of the input's file name, then
\* '_b0field', then the extension of the FSL output type ('.nii.gz' for
\* NIFTI_GZ, '.nii' for NIFTI), whatever the input's own extension.
C1_DerivedOutput ==
    (Started /\ "out_file" \notin DOMAIN inputs) =>
        LET derived == inputs["in_file"].base \o "_b0field"
                         \o (IF output_type = "NIFTI_GZ" THEN ".nii.gz" ELSE ".nii")
        IN  /\ args[2].text = "-o " \o derived
            /\ pc = "done" => PathStr(outputs[1]["out_file"]) = derived

C1_Witness ==
    /\ pc = "done"
    /\ "out_file" \notin DOMAIN inputs
    /\ inputs["in_file"] = DoctestInput
    /\ output_type = "NIFTI_GZ"

\* The order of the traits in the token grammar:
\* -i -o --gx --gy --gz --b0x --b0y --b0 -d --chi0 --xyz --extendboundary
\* --directconv.
GrammarOrder ==
    << "in_file", "out_file", "x_grad", "y_grad", "z_grad", "x_b0", "y_b0",
       "z_b0", "delta", "chi_air", "compute_xyz", "extendboundary",
       "directconv" >>

Rank(name) == CHOOSE i \in 1..Len(GrammarOrder) : GrammarOrder[i] = name

NumericFields ==
    { "x_grad", "y_grad", "z_grad", "x_b0", "y_b0", "z_b0", "delta", "chi_air",
      "extendboundary" }

\* What Python's % operator gives for each numeric trait's argstr and each
\* value of the model (the value in eighths).
Rendering(name, v) ==
    CASE name = "x_grad" /\ v = -3 -> "--gx=-0.3750"
      [] name = "x_grad" /\ v = 0 -> "--gx=0.0000"
      [] name = "x_grad" /\ v = 12 -> "--gx=1.5000"
      [] name = "y_grad" /\ v = -3 -> "--gy=-0.3750"
      [] name = "y_grad" /\ v = 0 -> "--gy=0.0000"
      [] name = "y_grad" /\ v = 12 -> "--gy=1.5000"
      [] name = "z_grad" /\ v = -3 -> "--gz=-0.3750"
      [] name = "z_grad" /\ v = 0 -> "--gz=0.0000"
      [] name = "z_grad" /\ v = 12 -> "--gz=1.5000"
      [] name = "x_b0" /\ v = -3 -> "--b0x=-0.38"
      [] name = "x_b0" /\ v = 1 -> "--b0x=0.12"
      [] name = "x_b0" /\ v = 24 -> "--b0x=3.00"
      [] name = "y_b0" /\ v = -3 -> "--b0y=-0.38"
      [] name = "y_b0" /\ v = 1 -> "--b0y=0.12"
      [] name = "y_b0" /\ v = 24 -> "--b0y=3.00"
      [] name = "z_b0" /\ v = -3 -> "--b0=-0.38"
      [] name = "z_b0" /\ v = 1 -> "--b0=0.12"
      [] name = "z_b0" /\ v = 24 -> "--b0=3.00"
      [] name = "delta" /\ v = -3 -> "-d -3.750000e-01"
      [] name = "delta" /\ v = 0 -> "-d 0.000000e+00"
      [] name = "delta" /\ v = 12 -> "-d 1.500000e+00"
      [] name = "chi_air" /\ v = -3 -> "--chi0=-3.750000e-01"
      [] name = "chi_air" /\ v = 0 -> "--chi0=0.000000e+00"
      [] name = "chi_air" /\ v = 12 -> "--chi0=1.500000e+00"
      [] name = "extendboundary" /\ v = -3 -> "--extendboundary=-0.38"
      [] name = "extendboundary" /\ v = 1 -> "--extendboundary=0.12"
      [] name = "extendboundary" /\ v = 24 -> "--extendboundary=3.00"
      [] OTHER -> "?"

\* C3 (as stated): every numeric trait has a token in the built arguments,
\* whether or not the caller set it.
C3_AlwaysRendered ==
    Started => \A f \in NumericFields : ArgsOf(f) # {}

\* C3 (amended): a numeric trait has a token in the built arguments exactly
\* when the caller set it (a declared default alone renders nothing, and a
\* value equal to the default still renders); the token is the trait's flag
\* and the value in the trait's fixed format (x_grad = 1.5 gives --gx=1.5000).
C3_RenderedWhenSet ==
    Started =>
        \A f \in NumericFields :
            IF f \in DOMAIN inputs
            THEN /\ Cardinality(ArgsOf(f)) = 1
                 /\ \A i \in ArgsOf(f) : args[i].text = Rendering(f, inputs[f])
            ELSE ArgsOf(f) = {}

C3_Witness ==
    /\ pc = "running"
    /\ "x_grad" \in DOMAIN inputs
    /\ inputs["x_grad"] = 12
    /\ "z_b0" \notin DOMAIN inputs
    /\ \E i \in 1..Len(args) : args[i].text = "--gx=1.5000"

\* The configuration of the doctest: only in_file and z_b0 set, the FSL
\* output type at NIFTI_GZ.
DoctestConfiguration ==
    /\ DOMAIN inputs = { "in_file", "z_b0" }
    /\ inputs["in_file"] = DoctestInput
    /\ inputs["z_b0"] = 24
    /\ output_type = "NIFTI_GZ"

\* C4: with in_file 'tissue+air_map.nii', z_b0 = 3.0 and nothing else set
\* (FSL output type NIFTI_GZ), the command line is exactly
\* 'b0calc -i tissue+air_map.nii -o tissue+air_map_b0field.nii.gz --b0=3.00'.
C4_DoctestCmdline ==
    (Started /\ DoctestConfiguration) =>
        /\ cmdline =
             "b0calc -i tissue+air_map.nii -o tissue+air_map_b0field.nii.gz --b0=3.00"
        /\ Len(args) = 3

C4_Witness == pc = "running" /\ DoctestConfiguration

\* C5: while in_file is unset the tool is never started and no outputs are
\* reported; a run in that configuration ends in MissingRequiredParameter.
C5_MissingInput ==
    "in_file" \notin DOMAIN inputs =>
        /\ calls = 0
        /\ outputs = << >>
        /\ pc \in { "idle", "failed" }
        /\ pc = "failed" => error = "MissingRequiredParameter"

C5_Witness ==
    /\ "in_file" \notin DOMAIN inputs
    /\ pc = "failed"
    /\ error = "MissingRequiredParameter"
    /\ DOMAIN inputs # {}

\* C6: when in_file is set to a path that names no file, a run ends in
\* PathNotFound (not MissingRequiredParameter) and the tool is never started.
C6_PathNotFound ==
    ("in_file" \in DOMAIN inputs /\ inputs["in_file"] \notin FileSystem) =>
        /\ calls = 0
        /\ outputs = << >>
        /\ pc \in { "idle", "failed" }
        /\ pc = "failed" => error = "PathNotFound"

C6_Witness ==
    /\ "in_file" \in DOMAIN inputs
    /\ inputs["in_file"] = [base |-> "/no/such/file", ext |-> ".nii"]
    /\ pc = "failed"
    /\ error = "PathNotFound"
    /\ calls = 0

\* C7: when out_file is set, the value after -o and the reported output are
\* the value the caller gave, with no suffix or extension added.
C7_ExplicitOutput ==
    (Started /\ "out_file" \in DOMAIN inputs) =>
        /\ args[2].text = "-o " \o inputs["out_file"].base \o inputs["out_file"].ext
        /\ pc = "done" => outputs[1]["out_file"] = inputs["out_file"]

C7_Witness ==
    /\ pc = "done"
    /\ "out_file" \in DOMAIN inputs
    /\ inputs["out_file"] = [base |-> "field", ext |-> ""]
    /\ args[2].text = "-o field"

\* C8: compute_xyz and directconv each render exactly the bare token --xyz or
\* --directconv when true and no token when false or unset.
C8_BoolFlags ==
    Started =>
        /\ IF "compute_xyz" \in DOMAIN inputs /\ inputs["compute_xyz"]
           THEN /\ Cardinality(ArgsOf("compute_xyz")) = 1
                /\ \A i \in ArgsOf("compute_xyz") : args[i].text = "--xyz"
           ELSE ArgsOf("compute_xyz") = {}
        /\ IF "directconv" \in DOMAIN inputs /\ inputs["directconv"]
           THEN /\ Cardinality(ArgsOf("directconv")) = 1
                /\ \A i \in ArgsOf("directconv") : args[i].text = "--directconv"
           ELSE ArgsOf("directconv") = {}
        /\ \A i \in 1..Len(args) :
              /\ args[i].text = "--xyz" => args[i].trait = "compute_xyz"
              /\ args[i].text = "--directconv" => args[i].trait = "directconv"

C8_Witness ==
    /\ pc = "running"
    /\ DOMAIN inputs = { "in_file", "compute_xyz", "directconv" }
    /\ inputs["compute_xyz"] = TRUE
    /\ inputs["directconv"] = FALSE
    /\ Len(args) = 3
    /\ args[3].text = "--xyz"

\* C9: the tool is started at most once per invocation; when it fails the
\* invocation ends in ExternalToolFailure, having started the tool once and
\* reported no outputs.
C9_SingleCall ==
    /\ calls <= 1
    /\ error = "ExternalToolFailure" =>
          pc = "failed" /\ calls = 1 /\ outputs = << >>
    /\ (pc = "failed" /\ calls = 1) => error = "ExternalToolFailure"

C9_Witness ==
    /\ pc = "failed"
    /\ error = "ExternalToolFailure"
    /\ calls = 1

\* C10: once the tool is started the built arguments no longer change, and
\* the step that ends a successful run reports exactly one output record,
\* whose out_file is the path that was rendered after -o.
C10_OutputFixed ==
    [][ pc = "running" =>
            /\ args' = args
            /\ cmdline' = cmdline
            /\ pc' = "done" =>
                  /\ Len(outputs') = 1
                  /\ "-o " \o PathStr(outputs'[1]["out_file"]) = args[2].text ]_vars

C10_Witness ==
    /\ pc = "done"
    /\ Len(outputs) = 1
    /\ "-o " \o PathStr(outputs[1]["out_file"]) = args[2].text

====
